---- MODULE Spec2Model ----
\* Model of src/unstructured/documents/elements.py: the element taxonomy
\* (ElementMetadata, CheckBox, Text and its subclasses), identity assignment at
\* construction, the cleaning pipeline Text.apply, equality and to_markdown.
\*
\* Python values are records [t |-> <type name>, v |-> <payload>]:
\*   a str is [t |-> "str", v |-> <sequence of one-character strings>],
\*   None is [t |-> "NoneType", v |-> <<>>], the NoID() sentinel is
\*   [t |-> "NoID", v |-> <<>>], a raised exception is
\*   [t |-> "raise", v |-> <<exception class name>>].
EXTENDS Integers, Sequences, FiniteSets, TLC

VARIABLES
    elems,   \* slot -> the element object bound to it (or Unbuilt)
    ctor,    \* slot -> the arguments its constructor was called with
    born,    \* slot -> the element exactly as its constructor returned it
    applies, \* slot -> number of apply calls made on the element
    last,    \* the last call made and what it returned or raised
    margs,   \* arguments handed to ElementMetadata(...)
    meta,    \* the ElementMetadata instance built from margs
    mdict,   \* the dictionary returned by meta.to_dict()
    meta2,   \* the instance returned by ElementMetadata.from_dict(mdict)
    mpc      \* how far the metadata round trip has got

vars == <<elems, ctor, born, applies, last, margs, meta, mdict, meta2, mpc>>

-----------------------------------------------------------------------------
\* Bounds of the model.

\* longest text handed to a constructor
MaxLen == 1
\* longest chain of cleaners handed to one apply call
MaxChain == 2
\* apply calls per element
MaxApplies == 1
\* largest page number tried
MaxPage == 1

-----------------------------------------------------------------------------
\* Python values.

Str(s) == [t |-> "str", v |-> s]
None == [t |-> "NoneType", v |-> <<>>]
NoID == [t |-> "NoID", v |-> <<>>]
NoAttr == [t |-> "noattr", v |-> <<>>]
Raise(exc) == [t |-> "raise", v |-> <<exc>>]
PyBool(b) == [t |-> "bool", v |-> IF b THEN <<"True">> ELSE <<"False">>]
PyInt(n) == [t |-> "int", v |-> <<n>>]
PyList(xs) == [t |-> "list", v |-> xs]
PyPath(s) == [t |-> "Path", v |-> s]

\* isinstance(x, str)
IsStr(x) == x.t = "str"
\* isinstance(x, NoID)
IsNoID(x) == x.t = "NoID"

\* The literal "<PAGE BREAK>" of PageBreak.__init__.
PageBreakText == <<"<", "P", "A", "G", "E", " ", "B", "R", "E", "A", "K", ">">>

\* The literal "None", what str(None) returns.
NoneRepr == <<"N", "o", "n", "e">>

-----------------------------------------------------------------------------
\* hashlib.sha256(text.encode()).hexdigest()[:32]

\* The UTF-8 byte of each character the model uses, as two lowercase hex digits
\* (str.encode() of ASCII text is one byte per character).
Utf8Hex(c) ==
    CASE c = "h" -> <<"6", "8">>
      [] c = "H" -> <<"4", "8">>
      [] c = "!" -> <<"2", "1">>
      [] c = "<" -> <<"3", "c">>
      [] c = ">" -> <<"3", "e">>
      [] c = " " -> <<"2", "0">>
      [] c = "P" -> <<"5", "0">>
      [] c = "A" -> <<"4", "1">>
      [] c = "G" -> <<"4", "7">>
      [] c = "E" -> <<"4", "5">>
      [] c = "B" -> <<"4", "2">>
      [] c = "R" -> <<"5", "2">>
      [] c = "K" -> <<"4", "b">>
      [] OTHER -> <<"3", "f">>

RECURSIVE Encode(_)
Encode(s) == IF s = <<>> THEN <<>> ELSE Utf8Hex(Head(s)) \o Encode(Tail(s))

\* Length of a SHA-256 hex digest, and of the prefix Text.__init__ keeps.
DigestHexLen == 64
IdHexLen == 32

HexDigits == {"0", "1", "2", "3", "4", "5", "6", "7", "8", "9",
              "a", "b", "c", "d", "e", "f"}

\* SHA-256's compression function is not computed. The digest is stood in for by
\* a function with the properties the claims rest on: deterministic, always
\* DigestHexLen lowercase hex digits, and free of collisions on the texts the
\* model builds (the message bytes, a terminator digit, zero padding).
Sha256Hex(bytes) ==
    LET body == bytes \o <<"8">>
    IN  [k \in 1..DigestHexLen |-> IF k <= Len(body) THEN body[k] ELSE "0"]

\* hashlib.sha256(text.encode()).hexdigest()[:32]
HashId(text) == Str(SubSeq(Sha256Hex(Encode(text)), 1, IdHexLen))

-----------------------------------------------------------------------------
\* ElementMetadata

MetaKeys == {"filename", "page_number", "url"}

\* the dataclass defaults: every field None
DefaultMetadata == [filename |-> None, page_number |-> None, url |-> None]

\* __post_init__: a pathlib.Path filename becomes its string
PostInit(m) ==
    IF m.filename.t = "Path" THEN [m EXCEPT !.filename = Str(m.filename.v)] ELSE m

\* ElementMetadata(filename=..., page_number=..., url=...)
NewMetadata(filename, page_number, url) ==
    PostInit([filename |-> filename, page_number |-> page_number, url |-> url])

\* bool(x) of a None, str or int value
Truthy(x) ==
    CASE x.t = "NoneType" -> FALSE
      [] x.t = "int" -> x.v[1] /= 0
      [] OTHER -> x.v /= <<>>

\* ToDict with a fault: keeps a field when it is truthy instead of when it is
\* not None, so 0 and "" are dropped
ToDictTruthy(m) ==
    LET keep == {k \in MetaKeys : Truthy(m[k])}
    IN  [k \in keep |-> m[k]]

\* to_dict: {key: value for key, value in self.__dict__.items() if value is not None}
ToDict(m) ==
    LET keep == {k \in MetaKeys : m[k] /= None}
    IN  [k \in keep |-> m[k]]

\* from_dict: cls(**input_dict); a field the dictionary lacks takes its default
FromDict(d) ==
    NewMetadata(IF "filename" \in DOMAIN d THEN d["filename"] ELSE None,
                IF "page_number" \in DOMAIN d THEN d["page_number"] ELSE None,
                IF "url" \in DOMAIN d THEN d["url"] ELSE None)

-----------------------------------------------------------------------------
\* Elements. One record per object: the attributes the constructors assign; an
\* attribute the class does not have is NoAttr (reading it raises AttributeError).

TextClasses == {"Text", "FigureCaption", "NarrativeText", "ListItem", "Title",
                "Address", "Image", "PageBreak"}
Classes == TextClasses \cup {"CheckBox"}

\* the class attribute `category`
Category(cls) == IF cls = "Text" THEN "UncategorizedText" ELSE cls

Unbuilt == [cls |-> "unbuilt", text |-> NoAttr, id |-> NoAttr,
            coordinates |-> NoAttr, metadata |-> DefaultMetadata, checked |-> NoAttr]

IsBuilt(e) == e.cls /= "unbuilt"
IsText(e) == e.cls \in TextClasses

\* Element.__init__
ElementInit(e, element_id, coordinates, metadata) ==
    [e EXCEPT !.id = element_id, !.coordinates = coordinates, !.metadata = metadata]

\* TextInit with a fault: derives the id from the text whatever id is supplied
TextInitAlwaysHash(cls, text, element_id, coordinates, metadata) ==
    ElementInit([Unbuilt EXCEPT !.cls = cls, !.text = text],
                HashId(text.v), coordinates, metadata)

\* Text.__init__, inherited by every text class but PageBreak
TextInit(cls, text, element_id, coordinates, metadata) ==
    LET eid == IF IsNoID(element_id) THEN HashId(text.v) ELSE element_id
    IN  ElementInit([Unbuilt EXCEPT !.cls = cls, !.text = text],
                    eid, coordinates, metadata)

\* PageBreakInit with a fault: hands its arguments on to Text.__init__
PageBreakInitKeepArgs(text, element_id, coordinates, metadata) ==
    TextInit("PageBreak", Str(PageBreakText), element_id, coordinates, metadata)

\* PageBreak.__init__: super().__init__(text="<PAGE BREAK>"), every other
\* parameter of Text.__init__ at its default
PageBreakInit(text, element_id, coordinates, metadata) ==
    TextInit("PageBreak", Str(PageBreakText), NoID, None, DefaultMetadata)

\* CheckBox.__init__
CheckBoxInit(element_id, coordinates, checked, metadata) ==
    [Unbuilt EXCEPT !.cls = "CheckBox", !.id = element_id,
                    !.coordinates = coordinates, !.checked = PyBool(checked),
                    !.metadata = metadata]

\* cls(...) with the arguments of record a
New(a) ==
    CASE a.cls = "CheckBox" ->
            CheckBoxInit(a.element_id, a.coordinates, a.checked, a.metadata)
      [] a.cls = "PageBreak" ->
            PageBreakInit(a.text, a.element_id, a.coordinates, a.metadata)
      [] OTHER ->
            TextInit(a.cls, a.text, a.element_id, a.coordinates, a.metadata)

-----------------------------------------------------------------------------
\* Cleaners: the callables handed to apply. Each takes any value and returns a
\* value or raises.

StrCleaners == {"appendExclaim", "rstripExclaim", "upper"}
Cleaners == StrCleaners \cup {"retNone", "toStr"}

UpperChar(c) ==
    CASE c = "h" -> "H" [] c = "n" -> "N" [] c = "o" -> "O" [] c = "e" -> "E"
      [] OTHER -> c

\* s.rstrip("!")
RECURSIVE RStripExclaim(_)
RStripExclaim(s) ==
    IF s /= <<>> /\ s[Len(s)] = "!" THEN RStripExclaim(SubSeq(s, 1, Len(s) - 1))
    ELSE s

\* cleaner(value):
\*   retNone        lambda s: None
\*   toStr          str
\*   upper          str.upper
\*   appendExclaim  lambda s: s + "!"
\*   rstripExclaim  lambda s: str.rstrip(s, "!")
\* the last three raise TypeError when handed a value that is not a str
Call(c, x) ==
    CASE c = "retNone" -> None
      [] c = "toStr" -> IF IsStr(x) THEN x ELSE Str(NoneRepr)
      [] ~IsStr(x) -> Raise("TypeError")
      [] c = "upper" -> Str([k \in 1..Len(x.v) |-> UpperChar(x.v[k])])
      [] c = "appendExclaim" -> Str(x.v \o <<"!">>)
      [] c = "rstripExclaim" -> Str(RStripExclaim(x.v))

\* CleanLoop with a fault: runs the cleaners last to first
RECURSIVE CleanLoopReversed(_, _)
CleanLoopReversed(cleaners, cleaned_text) ==
    IF cleaners = <<>> THEN cleaned_text
    ELSE LET r == Call(cleaners[Len(cleaners)], cleaned_text)
         IN  IF r.t = "raise" THEN r
             ELSE CleanLoopReversed(SubSeq(cleaners, 1, Len(cleaners) - 1), r)

\* for cleaner in cleaners: cleaned_text = cleaner(cleaned_text)
\* (an exception a cleaner raises leaves the loop and apply)
RECURSIVE CleanLoop(_, _)
CleanLoop(cleaners, cleaned_text) ==
    IF cleaners = <<>> THEN cleaned_text
    ELSE LET r == Call(Head(cleaners), cleaned_text)
         IN  IF r.t = "raise" THEN r ELSE CleanLoop(Tail(cleaners), r)

\* Commit with a fault: rehashes the id from the new text
CommitRehash(e, cleaned_text) ==
    [e EXCEPT !.text = cleaned_text, !.id = HashId(cleaned_text.v)]

\* self.text = cleaned_text
Commit(e, cleaned_text) == [e EXCEPT !.text = cleaned_text]

\* ApplyTo with a fault: assigns self.text before the isinstance check
ApplyToCommitFirst(e, cleaners) ==
    LET cleaned_text == CleanLoop(cleaners, e.text)
    IN  CASE cleaned_text.t = "raise" -> [elem |-> e, result |-> cleaned_text]
          [] ~IsStr(cleaned_text) ->
                [elem |-> [e EXCEPT !.text = cleaned_text],
                 result |-> Raise("ValueError")]
          [] OTHER -> [elem |-> Commit(e, cleaned_text), result |-> None]

\* Text.apply(self, *cleaners): the element afterwards and what the call
\* returned (None) or raised
ApplyTo(e, cleaners) ==
    LET cleaned_text == CleanLoop(cleaners, e.text)
    IN  CASE cleaned_text.t = "raise" -> [elem |-> e, result |-> cleaned_text]
          [] ~IsStr(cleaned_text) -> [elem |-> e, result |-> Raise("ValueError")]
          [] OTHER -> [elem |-> Commit(e, cleaned_text), result |-> None]

-----------------------------------------------------------------------------
\* to_markdown and __eq__

\* e.to_markdown(). CheckBox has no override: the call reaches
\* Element.to_markdown, declared without self, and raises TypeError.
ToMarkdown(e) ==
    CASE e.cls = "CheckBox" -> Raise("TypeError")
      [] e.cls \in {"Text", "FigureCaption"} ->
            Str(<<"!", "[", "]", "(">> \o e.text.v \o <<")">>)
      [] e.cls \in {"NarrativeText", "Address"} -> Str(e.text.v)
      [] e.cls = "ListItem" -> Str(<<"-", " ">> \o e.text.v)
      [] e.cls = "Title" -> Str(<<"#", " ">> \o e.text.v)
      [] e.cls = "Image" -> Str(<<>>)
      [] e.cls = "PageBreak" -> Str(<<"\n", "\n">>)

\* TextEq with a fault: also compares the identifiers
TextEqWithId(self, other) ==
    IF other.text = NoAttr THEN Raise("AttributeError")
    ELSE PyBool(/\ self.text = other.text
                /\ self.coordinates = other.coordinates
                /\ Category(self.cls) = Category(other.cls)
                /\ self.id = other.id)

\* Text.__eq__(self, other): other.text is read first
TextEq(self, other) ==
    IF other.text = NoAttr THEN Raise("AttributeError")
    ELSE PyBool(/\ self.text = other.text
                /\ self.coordinates = other.coordinates
                /\ Category(self.cls) = Category(other.cls))

\* CheckBox.__eq__(self, other): other.checked is read first
CheckBoxEq(self, other) ==
    IF other.checked = NoAttr THEN Raise("AttributeError")
    ELSE PyBool(/\ self.checked = other.checked
                /\ self.coordinates = other.coordinates)

\* a == b: the left operand's __eq__ runs (no class here overrides the
\* __eq__ it inherits, so the reflected call never takes priority) and what it
\* raises propagates
PyEq(a, b) == IF a.cls = "CheckBox" THEN CheckBoxEq(a, b) ELSE TextEq(a, b)

-----------------------------------------------------------------------------
\* Inputs.

Slots == {1, 2}

InputChars == {"h"}
Texts == UNION {[1..n -> InputChars] : n \in 0..MaxLen}
TextArgs == {Str(s) : s \in Texts}
IdArgs == {NoID, Str(<<"x">>)}
CoordArgs == {None, PyList(<<1, 2>>)}
MetaArgs == {DefaultMetadata, NewMetadata(Str(<<"f">>), PyInt(1), None)}
ChainCleaners == {"appendExclaim", "rstripExclaim", "retNone", "toStr"}
Chains == UNION {[1..n -> ChainCleaners] : n \in 0..MaxChain}

\* constructor calls: a text class with a text, PageBreak with a text or None,
\* CheckBox with checked
CtorArgs(classes, texts) ==
    [cls : classes \cap TextClasses, text : texts, element_id : IdArgs,
     coordinates : CoordArgs, metadata : MetaArgs, checked : {FALSE}]
    \cup
    [cls : classes \cap {"PageBreak"}, text : {None}, element_id : IdArgs,
     coordinates : CoordArgs, metadata : MetaArgs, checked : {FALSE}]
    \cup
    [cls : classes \cap {"CheckBox"}, text : {NoAttr}, element_id : IdArgs,
     coordinates : CoordArgs, metadata : MetaArgs, checked : BOOLEAN]

NoArgs == [cls |-> "unbuilt", text |-> NoAttr, element_id |-> NoID,
           coordinates |-> None, metadata |-> DefaultMetadata, checked |-> FALSE]

\* the inputs of the two-element specification
PairClasses == {"ListItem", "Title", "PageBreak", "CheckBox"}
PairTexts == {Str(<<"h">>), Str(<<"H">>)}
PairChains == {<<>>, <<"upper">>, <<"retNone">>}

FilenameArgs == {None, Str(<<>>), Str(<<"f">>), PyPath(<<"f">>)}
PageArgs == {None} \cup {PyInt(n) : n \in 0..MaxPage}
UrlArgs == {None, Str(<<>>), Str(<<"u">>)}

-----------------------------------------------------------------------------
\* The element operations.

Call0 == [op |-> "none", i |-> 0, j |-> 0, chain |-> <<>>, result |-> None,
          pre |-> Unbuilt]

ElemInit ==
    /\ elems = [i \in Slots |-> Unbuilt]
    /\ ctor = [i \in Slots |-> NoArgs]
    /\ born = [i \in Slots |-> Unbuilt]
    /\ applies = [i \in Slots |-> 0]
    /\ last = Call0

MetaIdle ==
    /\ margs = DefaultMetadata
    /\ meta = DefaultMetadata
    /\ mdict = <<>>
    /\ meta2 = DefaultMetadata
    /\ mpc = "idle"

metaVars == <<margs, meta, mdict, meta2, mpc>>
elemVars == <<elems, ctor, born, applies, last>>

\* elems[i] = cls(...)
Construct(i, a) ==
    /\ ~IsBuilt(elems[i])
    /\ elems' = [elems EXCEPT ![i] = New(a)]
    /\ ctor' = [ctor EXCEPT ![i] = a]
    /\ born' = [born EXCEPT ![i] = New(a)]
    /\ last' = [Call0 EXCEPT !.op = "new", !.i = i]
    /\ UNCHANGED <<applies, metaVars>>

\* elems[i].apply(*cs)
Apply(i, cs) ==
    /\ IsText(elems[i])
    /\ applies[i] < MaxApplies
    /\ LET r == ApplyTo(elems[i], cs)
       IN  /\ elems' = [elems EXCEPT ![i] = r.elem]
           /\ last' = [Call0 EXCEPT !.op = "apply", !.i = i, !.chain = cs,
                                    !.result = r.result, !.pre = elems[i]]
    /\ applies' = [applies EXCEPT ![i] = @ + 1]
    /\ UNCHANGED <<ctor, born, metaVars>>

\* elems[i].to_markdown()
Markdown(i) ==
    /\ IsBuilt(elems[i])
    /\ last' = [Call0 EXCEPT !.op = "to_markdown", !.i = i,
                             !.result = ToMarkdown(elems[i]), !.pre = elems[i]]
    /\ UNCHANGED <<elems, ctor, born, applies, metaVars>>

\* elems[i] == elems[j]
Compare(i, j) ==
    /\ IsBuilt(elems[i])
    /\ IsBuilt(elems[j])
    /\ last' = [Call0 EXCEPT !.op = "eq", !.i = i, !.j = j,
                             !.result = PyEq(elems[i], elems[j]), !.pre = elems[i]]
    /\ UNCHANGED <<elems, ctor, born, applies, metaVars>>

\* One element through its life: built by any class, cleaned, rendered.
Init == ElemInit /\ MetaIdle

Next ==
    \/ \E a \in CtorArgs(Classes, TextArgs) : Construct(1, a)
    \/ \E cs \in Chains : Apply(1, cs)
    \/ Markdown(1)

Spec == Init /\ [][Next]_vars

\* Two elements side by side: built, cleaned, compared.
NextPair ==
    \/ \E i \in Slots, a \in CtorArgs(PairClasses, PairTexts) : Construct(i, a)
    \/ \E i \in Slots, cs \in PairChains : Apply(i, cs)
    \/ \E i \in Slots, j \in Slots : Compare(i, j)

SpecPair == Init /\ [][NextPair]_vars

-----------------------------------------------------------------------------
\* The metadata round trip: ElementMetadata(...), to_dict, from_dict.

MetaInit ==
    /\ ElemInit
    /\ margs \in [filename : FilenameArgs, page_number : PageArgs, url : UrlArgs]
    /\ meta = DefaultMetadata
    /\ mdict = <<>>
    /\ meta2 = DefaultMetadata
    /\ mpc = "args"

MetaNew ==
    /\ mpc = "args"
    /\ meta' = NewMetadata(margs.filename, margs.page_number, margs.url)
    /\ mpc' = "built"
    /\ UNCHANGED <<margs, mdict, meta2, elemVars>>

MetaToDict ==
    /\ mpc = "built"
    /\ mdict' = ToDict(meta)
    /\ mpc' = "dumped"
    /\ UNCHANGED <<margs, meta, meta2, elemVars>>

MetaFromDict ==
    /\ mpc = "dumped"
    /\ meta2' = FromDict(mdict)
    /\ mpc' = "loaded"
    /\ UNCHANGED <<margs, meta, mdict, elemVars>>

NextMeta == MetaNew \/ MetaToDict \/ MetaFromDict

SpecMeta == MetaInit /\ [][NextMeta]_vars

-----------------------------------------------------------------------------
\* Properties.

\* the element the last call was made on, as it is now
Self == elems[last.i]

\* the values the cleaners of chain cs return one after the other, starting
\* from x, up to the first cleaner that raises
RECURSIVE Outputs(_, _)
Outputs(cs, x) ==
    IF cs = <<>> THEN <<>>
    ELSE LET r == Call(Head(cs), x)
         IN  IF r.t = "raise" THEN <<r>> ELSE <<r>> \o Outputs(Tail(cs), r)

\* fn(...f2(f1(t))...): the outermost call is the last transform
RECURSIVE Composed(_, _)
Composed(cs, x) ==
    IF cs = <<>> THEN x
    ELSE Call(cs[Len(cs)], Composed(SubSeq(cs, 1, Len(cs) - 1), x))

\* C1: a text element's id is the id its constructor gave it, whatever apply
\* calls have been made since; built without an explicit id, it is the hash of
\* the text the constructor stored, not of the current text.
C1_IdFixedAtConstruction ==
    \A i \in Slots :
        IsText(elems[i]) =>
            /\ elems[i].id = born[i].id
            /\ ctor[i].element_id = NoID => elems[i].id = HashId(born[i].text.v)

\* C1 witness: an element built without an id whose text a successful apply
\* has changed.
C1_Witness ==
    /\ last.op = "apply"
    /\ last.result = None
    /\ ctor[last.i].element_id = NoID
    /\ Self.text /= born[last.i].text
    /\ HashId(Self.text.v) /= Self.id

\* C2 as stated: an explicit id is stored unchanged by every constructor; a text
\* element without one gets the hash of its initial text; a CheckBox without
\* one keeps NoID.
C2_Original ==
    \A i \in Slots :
        IsBuilt(born[i]) =>
            /\ ctor[i].element_id /= NoID => born[i].id = ctor[i].element_id
            /\ ctor[i].element_id = NoID /\ IsText(born[i]) =>
                    born[i].id = HashId(born[i].text.v)
            /\ ctor[i].element_id = NoID /\ ~IsText(born[i]) => born[i].id = NoID

\* C2 amended: as C2, except that PageBreak discards the id it is handed and
\* always takes the hash of "<PAGE BREAK>". The derived id is IdHexLen hex
\* digits, and two text elements built with the same text and no id agree on it.
C2_IdentityAssignment ==
    /\ \A i \in Slots :
        IsBuilt(born[i]) =>
            /\ ctor[i].element_id /= NoID /\ born[i].cls /= "PageBreak" =>
                    born[i].id = ctor[i].element_id
            /\ born[i].cls = "PageBreak" => born[i].id = HashId(PageBreakText)
            /\ ctor[i].element_id = NoID /\ IsText(born[i]) =>
                    /\ born[i].id = HashId(born[i].text.v)
                    /\ IsStr(born[i].id)
                    /\ Len(born[i].id.v) = IdHexLen
                    /\ \A k \in 1..IdHexLen : born[i].id.v[k] \in HexDigits
            /\ ~IsText(born[i]) => born[i].id = ctor[i].element_id
    /\ \A i \in Slots, j \in Slots :
        /\ IsText(born[i]) /\ IsText(born[j])
        /\ ctor[i].element_id = NoID /\ ctor[j].element_id = NoID
        /\ born[i].text = born[j].text
        => born[i].id = born[j].id

\* C2 witness: two text elements of different classes built from the same text
\* without an id, beside nothing else; their ids agree.
C2_Witness ==
    /\ born[1].cls = "ListItem" /\ born[2].cls = "Title"
    /\ ctor[1].element_id = NoID /\ ctor[2].element_id = NoID
    /\ ctor[1].text = ctor[2].text
    /\ born[1].id = born[2].id

\* C3 as stated, on the runs where no cleaner itself raises: whenever some
\* cleaner of the chain returned a value that is not a str, apply raised
\* ValueError.
C3_NonStringOutputRejected ==
    last.op = "apply" =>
        LET outs == Outputs(last.chain, last.pre.text)
        IN  /\ \E k \in 1..Len(outs) : outs[k].t \notin {"str", "raise"}
            /\ \A k \in 1..Len(outs) : outs[k].t /= "raise"
            => last.result = Raise("ValueError")

\* C4: an apply that raises leaves the element exactly as it was before the
\* call; one that returns has assigned a str to text and nothing else.
C4_ApplyAtomic ==
    last.op = "apply" =>
        /\ last.result.t = "raise" => Self = last.pre
        /\ last.result.t /= "raise" =>
                /\ IsStr(Self.text)
                /\ Self = [last.pre EXCEPT !.text = Self.text]

\* C4 witness: a chain whose first cleaner returned a new str and whose last
\* returned None; apply raised ValueError.
C4_Witness ==
    /\ last.op = "apply"
    /\ last.result = Raise("ValueError")
    /\ Len(last.chain) >= 2
    /\ LET first == Call(last.chain[1], last.pre.text)
       IN  IsStr(first) /\ first /= last.pre.text

\* C5: for a chain of str -> str cleaners, apply returns and the text is
\* fn(...f1(t)...), t the text before the call; every other attribute is as
\* before (with the empty chain, so is the text).
C5_PipelineOrder ==
    last.op = "apply" /\ (\A k \in 1..Len(last.chain) : last.chain[k] \in StrCleaners) =>
        /\ last.result = None
        /\ Self = [last.pre EXCEPT !.text = Composed(last.chain, last.pre.text)]
        /\ last.chain = <<>> => Self = last.pre

\* C5 witness: two str -> str cleaners whose order matters on this text.
C5_Witness ==
    /\ last.op = "apply"
    /\ Len(last.chain) = 2
    /\ \A k \in 1..2 : last.chain[k] \in StrCleaners
    /\ Self.text = Composed(last.chain, last.pre.text)
    /\ Self.text /= Composed(<<last.chain[2], last.chain[1]>>, last.pre.text)

\* C6: comparing two text elements gives True exactly when text, coordinates
\* and category all agree; id and metadata play no part.
C6_TextEquality ==
    last.op = "eq" /\ IsText(elems[last.i]) /\ IsText(elems[last.j]) =>
        LET a == elems[last.i]
            b == elems[last.j]
        IN  last.result = PyBool(/\ a.text = b.text
                                 /\ a.coordinates = b.coordinates
                                 /\ Category(a.cls) = Category(b.cls))

\* C6 witness: two elements built from different texts, with different ids and
\* metadata, cleaned to the same text, compare equal.
C6_Witness ==
    /\ last.op = "eq"
    /\ last.i /= last.j
    /\ IsText(elems[last.i]) /\ IsText(elems[last.j])
    /\ born[last.i].text /= born[last.j].text
    /\ elems[last.i].id /= elems[last.j].id
    /\ elems[last.i].metadata /= elems[last.j].metadata
    /\ last.result = PyBool(TRUE)

\* C7 as stated: comparing a text element with a CheckBox, either way round,
\* gives False.
C7_MismatchedCompareIsFalse ==
    last.op = "eq" /\ IsText(elems[last.i]) /= IsText(elems[last.j]) =>
        last.result = PyBool(FALSE)

\* C8: to_dict(m) has exactly the keys of m's fields that are not None, each
\* with the field's value, and from_dict(to_dict(m)) equals m.
C8_MetadataRoundTrip ==
    /\ mpc \in {"dumped", "loaded"} =>
        /\ DOMAIN mdict = {k \in MetaKeys : meta[k] /= None}
        /\ \A k \in DOMAIN mdict : mdict[k] /= None /\ mdict[k] = meta[k]
    /\ mpc = "loaded" => meta2 = meta

\* C8 witness: a record with an empty filename, page number 0 and no url has
\* made the round trip.
C8_Witness ==
    /\ mpc = "loaded"
    /\ meta.filename = Str(<<>>)
    /\ meta.page_number = PyInt(0)
    /\ meta.url = None
    /\ DOMAIN mdict = {"filename", "page_number"}

\* C9: whatever PageBreak's constructor is handed, the instance has text
\* "<PAGE BREAK>", the hash of that text as id, no coordinates and the default
\* metadata; its to_markdown is two newlines whatever its text is.
C9_PageBreakIgnoresArguments ==
    /\ \A i \in Slots :
        born[i].cls = "PageBreak" =>
            /\ born[i].text = Str(PageBreakText)
            /\ born[i].id = HashId(PageBreakText)
            /\ born[i].coordinates = None
            /\ born[i].metadata = DefaultMetadata
    /\ last.op = "to_markdown" /\ last.pre.cls = "PageBreak" =>
            last.result = Str(<<"\n", "\n">>)

\* C9 witness: a PageBreak handed a text, an id, coordinates and metadata,
\* rendered after apply changed its text.
C9_Witness ==
    /\ last.op = "to_markdown"
    /\ Self.cls = "PageBreak"
    /\ IsStr(ctor[last.i].text)
    /\ ctor[last.i].element_id /= NoID
    /\ ctor[last.i].coordinates /= None
    /\ ctor[last.i].metadata /= DefaultMetadata
    /\ Self.text /= Str(PageBreakText)

\* C10 as stated: to_markdown returns a str for every concrete class, CheckBox
\* included, and for the text classes the str of the rendering table.
C10_ToMarkdownTotal ==
    last.op = "to_markdown" =>
        /\ IsStr(last.result)
        /\ Self = last.pre
        /\ Self.cls = "Title" => last.result = Str(<<"#", " ">> \o Self.text.v)
        /\ Self.cls = "ListItem" => last.result = Str(<<"-", " ">> \o Self.text.v)
        /\ Self.cls \in {"NarrativeText", "Address"} => last.result = Self.text
        /\ Self.cls = "FigureCaption" =>
                last.result = Str(<<"!", "[", "]", "(">> \o Self.text.v \o <<")">>)
        /\ Self.cls = "Image" => last.result = Str(<<>>)
        /\ Self.cls = "PageBreak" => last.result = Str(<<"\n", "\n">>)

====
